---- MODULE Spec2Model ----
(***************************************************************************)
(* A model of ImdLoader: the generator imd_data_loader (imd_loader.py) and *)
(* the commands of the CLI (cli.py).                                       *)
(*                                                                         *)
(* The generator is modelled as a coroutine: pc is the yield it is         *)
(* suspended at (or the point it runs from), and every action is one       *)
(* resumption by the consumer running the code up to the next yield.  The  *)
(* data directory (disk) and the database (dbSchemas, dbTables) survive    *)
(* from one run to the next; everything else is per run.                   *)
(***************************************************************************)
EXTENDS Integers, Sequences, FiniteSets, TLC

\* ---------------------------------------------------------------- bounds

\* attachment sections on the statistics page
MaxAttachments == 2
\* pipeline runs over the same data directory and database
MaxRuns == 2
\* characters of a name given to sanitise_name on its own
MaxNameLen == 4
\* sheets of a workbook given to process_excel_file on its own
MaxSheets == 3

\* ---------------------------------------------------------------- names

\* Strings the code takes apart are sequences of one-character strings.
UpperCase == <<"A", "B", "D", "E", "F", "N">>
LowerCase == <<"a", "b", "d", "e", "f", "n">>

\* str.lower(), one character
LowerChar(c) ==
    IF \E i \in 1..Len(UpperCase) : UpperCase[i] = c
    THEN LowerCase[CHOOSE i \in 1..Len(UpperCase) : UpperCase[i] = c]
    ELSE c

\* str.lower()
LowerMut(s) == s
Lower(s) == [i \in 1..Len(s) |-> LowerChar(s[i])]

\* str.replace(c, r) for a one-character c
RECURSIVE Replace(_, _, _)
Replace(s, c, r) ==
    IF s = <<>> THEN <<>>
    ELSE (IF Head(s) = c THEN r ELSE <<Head(s)>>) \o Replace(Tail(s), c, r)

\* re.sub(r"_+", "_", s)
RECURSIVE CollapseUnderscores(_)
CollapseUnderscores(s) ==
    IF Len(s) < 2 THEN s
    ELSE IF s[1] = "_" /\ s[2] = "_" THEN CollapseUnderscores(Tail(s))
    ELSE <<Head(s)>> \o CollapseUnderscores(Tail(s))

\* str.lstrip("_")
RECURSIVE LStrip(_)
LStrip(s) == IF s # <<>> /\ Head(s) = "_" THEN LStrip(Tail(s)) ELSE s

\* str.rstrip("_")
RECURSIVE RStrip(_)
RStrip(s) ==
    IF s # <<>> /\ s[Len(s)] = "_" THEN RStrip(SubSeq(s, 1, Len(s) - 1)) ELSE s

\* str.strip("_")
Strip(s) == RStrip(LStrip(s))

sanitise_nameMut(name) ==
    LET sanitised ==
            Replace(Replace(Replace(Replace(Lower(name),
                " ", <<"_">>), "&", <<"a", "n", "d">>), "(", <<>>), ")", <<>>)
    IN  Strip(Replace(CollapseUnderscores(sanitised), "-", <<"_">>))
sanitise_name(name) ==
    LET sanitised ==
            Replace(Replace(Replace(Replace(Replace(Lower(name),
                " ", <<"_">>), "-", <<"_">>), "&", <<"a", "n", "d">>),
                "(", <<>>), ")", <<>>)
    IN  Strip(CollapseUnderscores(sanitised))

\* ---------------------------------------------------------------- the web

\* A file name is stem + "." + ext; ext holds no dot.
StemF1 == <<"F", " ", "1">>
StemA == <<"a">>
NameXlsx == [stem |-> StemF1, ext |-> "xlsx"]
NameCsv == [stem |-> StemA, ext |-> "csv"]
NameDotCsv == [stem |-> <<>>, ext |-> "csv"]
NamePdf == [stem |-> StemA, ext |-> "pdf"]

\* pathlib's PurePath.suffix: the text from the last dot on, unless the dot
\* is the first character of the name
Suffix(name) == IF name.stem = <<>> THEN "" ELSE "." \o name.ext

\* The href of an attachment's link: kind is how it starts ("/media/",
\* "http", or anything else), dir and name are the rest of its path.
\* NoLink is an attachment section without a govuk-link anchor.
NoLink == [kind |-> "nolink"]
Hrefs == {
    [kind |-> "/media/", dir |-> 1, name |-> NameXlsx],
    [kind |-> "http", dir |-> 1, name |-> NameCsv],
    [kind |-> "/media/", dir |-> 2, name |-> NameCsv],
    [kind |-> "/media/", dir |-> 1, name |-> NameDotCsv],
    [kind |-> "other", dir |-> 1, name |-> NameCsv],
    [kind |-> "/media/", dir |-> 1, name |-> NamePdf] }
Attachments == Hrefs \cup {NoLink}

SeqsUpTo(S, n) == UNION {[1..m -> S] : m \in 0..n}

\* what the page can hold
Pages == SeqsUpTo(Attachments, MaxAttachments)

\* href.endswith(".xlsx") or href.endswith(".csv")
EndsWithDataSuffix(href) == href.name.ext \in {"xlsx", "csv"}

\* The body of get_download_links' loop for one attachment: the descriptor
\* it appends, if any.
LinkOf(att) ==
    IF att = NoLink THEN <<>>
    ELSE IF ~EndsWithDataSuffix(att) THEN <<>>
    ELSE IF att.kind = "/media/"
         THEN <<[url |-> [base |-> "BASE_URL", dir |-> att.dir, name |-> att.name],
                 filename |-> att.name]>>
    ELSE IF att.kind # "http" THEN <<>>
    ELSE <<[url |-> [base |-> "", dir |-> att.dir, name |-> att.name],
            filename |-> att.name]>>

\* get_download_links on a page that was fetched and parsed
RECURSIVE get_download_links(_)
get_download_links(page) ==
    IF page = <<>> THEN <<>>
    ELSE LinkOf(Head(page)) \o get_download_links(Tail(page))

\* A grid (DataFrame): a number of columns and the rows.
Grid(c, r) == [columns |-> c, rows |-> r]

SheetNotes == <<"N", "o", "t", "e", "s">>
\* The workbook served for the .xlsx: its sheets in file order; a "bad"
\* sheet makes read_excel raise.
Workbook == <<
    [name |-> SheetNotes, kind |-> "data", df |-> Grid(1, <<9>>)],
    [name |-> <<"D", " ", "1">>, kind |-> "data", df |-> Grid(2, <<1, 2>>)],
    [name |-> <<"E">>, kind |-> "data", df |-> Grid(0, <<>>)],
    [name |-> <<"B">>, kind |-> "bad", df |-> Grid(0, <<>>)],
    [name |-> <<"d", "-", "1">>, kind |-> "data", df |-> Grid(1, <<3>>)] >>

\* The rows served for a .csv url
CsvRows(url) ==
    IF url.name = NameDotCsv THEN <<7>>
    ELSE IF url.dir = 1 THEN <<1, 2>> ELSE <<5>>

\* ---------------------------------------------------------------- state

None == [none |-> TRUE]

VARIABLES
    run,          \* number of the current run
    pc,           \* where the generator is
    events,       \* the status events the consumer has received, in order
    files,        \* files of imd_data_loader
    fileIdx,      \* descriptors download_file_gen has gone through
    data_files,   \* data_files of imd_data_loader
    dataIdx,      \* position of the loading loop in data_files
    unitIdx,      \* units the current file's processor has yielded
    tables_loaded,
    total_tables,
    dirExists,    \* the data directory exists
    disk,         \* file name -> None or [url, complete]
    dbSchemas,    \* schemas of the database
    dbTables,     \* <<schema, table>> -> grid
    dbFile,       \* the database file exists
    workbook,     \* the workbook the web serves for the .xlsx
    exitStatus,   \* <<status>> once cmd_load has returned, <<>> before
    \* what happened in this run, for the properties
    pageGets,     \* HTTP GETs of the page
    extraction,   \* get_download_links: "pending", "raised" or "returned"
    outcomes,     \* per descriptor gone through: what download_file_gen did
                  \* (o) and the file at its path before and after
    loadLog,      \* the load_to_duckdb calls: [schema, table, df, ok]
    lastCall,     \* the latest load_to_duckdb call of any run, None before
    conLeft,      \* the latest load_to_duckdb call returned without closing
                  \* the connection it opened
    cli,          \* the list-tables or query command run after the pipeline
                  \* ended, None before
    arg,          \* the argument of a function applied on its own
    result,       \* <<its result>>, <<>> before
    extracted,    \* indexes of data_files a Table Extractor ran on
    latest        \* <<schema, table>> -> grid of the latest successful load

vars == <<run, pc, events, files, fileIdx, data_files, dataIdx,
          unitIdx, tables_loaded, total_tables, dirExists, disk, dbSchemas,
          dbTables, dbFile, workbook, exitStatus, pageGets, extraction, outcomes,
          loadLog, lastCall, conLeft, cli, arg, result, extracted, latest>>

FileNames == {NameXlsx, NameCsv, NameDotCsv}

\* ---------------------------------------------------------------- events

EvExtracting == [stage |-> "extracting", message |-> <<"Fetching download links">>]
EvError(msg) == [stage |-> "error", message |-> msg]
EvFound(n) ==
    [stage |-> "downloading", message |-> <<"Found", n, "files">>, total_files |-> n]
EvFile(status, name) == [stage |-> "downloading", status |-> status, file |-> name]
EvLoading(n) ==
    [stage |-> "loading", message |-> <<"Loading", n, "files into database">>,
     total_files |-> n]
\* EvProcessing, were it tagged with the stage before
EvProcessingMut(name) ==
    [stage |-> "downloading", file |-> name, status |-> "processing"]
EvProcessing(name) == [stage |-> "loading", file |-> name, status |-> "processing"]
EvLoaded(name, schema, table, rows) ==
    [stage |-> "loading", file |-> name, table |-> <<schema, table>>,
     rows |-> rows, status |-> "loaded"]
\* EvFileDone, were it to report the running total
EvFileDoneMut(name, n) ==
    [stage |-> "loading", file |-> name, tables_loaded |-> total_tables,
     status |-> "complete"]
EvFileDone(name, n) ==
    [stage |-> "loading", file |-> name, tables_loaded |-> n, status |-> "complete"]
EvComplete(n) == [stage |-> "complete", total_tables |-> n, database |-> "db_path"]

\* ---------------------------------------------------------------- File Fetcher

\* Exists, were it to count only whole files
ExistsMut(d, name) == d[name] # None /\ d[name].complete

\* file_path.exists()
Exists(d, name) == d[name] # None

\* What requests.get, open and the chunk loop can do for one descriptor:
\* all succeed; an exception before the file is created (the request,
\* raise_for_status or open raises); a chunk read or write raises after
\* the file was opened.
DownloadOutcomes == {"ok", "req_fail", "write_fail"}

\* The file a download attempt leaves at the path: the whole body, nothing,
\* or the part written before the exception.
WrittenFile(d, desc, o) ==
    IF o = "ok" THEN [d EXCEPT ![desc.filename] = [url |-> desc.url, complete |-> TRUE]]
    ELSE IF o = "write_fail"
         THEN [d EXCEPT ![desc.filename] = [url |-> desc.url, complete |-> FALSE]]
    ELSE d

\* StatusOf, were only a failed request to yield failed
StatusOfMut(o) == IF o = "req_fail" THEN "failed" ELSE "downloaded"

\* the status download_file_gen yields after an attempt
StatusOf(o) == IF o = "ok" THEN "downloaded" ELSE "failed"

\* ---------------------------------------------------------------- Table Extractor

\* len(df.columns) == 0 or len(df) == 0
IsEmptyMut(df) == df.columns = 0
IsEmpty(df) == df.columns = 0 \/ Len(df.rows) = 0

\* pd.ExcelFile(excel_path).sheet_names with each sheet's content: <<>> when
\* the workbook does not open (no file, or a truncated one)
OpenWorkbook(d, name) ==
    IF d[name] = None \/ ~d[name].complete THEN <<>>
    ELSE workbook

\* the units of the sheets from position j on
RECURSIVE SheetUnits(_, _, _)
SheetUnits(schema_name, sheets, j) ==
    IF j > Len(sheets) THEN <<>>
    ELSE LET sheet == sheets[j]
             rest == SheetUnits(schema_name, sheets, j + 1)
         IN  IF sheet.name = SheetNotes THEN rest
             ELSE IF sheet.kind = "bad" THEN rest
             ELSE IF IsEmpty(sheet.df) THEN rest
             ELSE <<[schema_name |-> schema_name,
                     table_name |-> sanitise_name(sheet.name),
                     df |-> sheet.df]>> \o rest

\* the Tabular Units process_excel_file yields, in order
process_excel_file(d, name) ==
    SheetUnits(sanitise_name(name.stem), OpenWorkbook(d, name), 1)

\* pd.read_csv(csv_path): <<df>>, or <<>> when it raises (no file, nothing
\* to parse); a truncated file parses to the rows that were written
ReadCsv(d, name) ==
    IF d[name] = None THEN <<>>
    ELSE LET rows == CsvRows(d[name].url)
             got == IF d[name].complete THEN rows ELSE SubSeq(rows, 1, Len(rows) - 1)
         IN  IF got = <<>> THEN <<>> ELSE <<Grid(1, got)>>

\* the Tabular Units process_csv_file yields
process_csv_file(d, name) ==
    LET schema_name == sanitise_name(name.stem)
        table_name == sanitise_name(name.stem)
        read == ReadCsv(d, name)
    IN  IF read = <<>> THEN <<>>
        ELSE IF IsEmpty(read[1]) THEN <<>>
        ELSE <<[schema_name |-> schema_name, table_name |-> table_name, df |-> read[1]]>>

\* The processor the loading loop chooses for a data file.  data_files holds
\* only paths whose suffix is .xlsx or .csv (DataFilesResumed), so the
\* loop's last branch (any other suffix: continue) is never taken.
Processor(d, name) ==
    IF Suffix(name) = ".xlsx" THEN process_excel_file(d, name)
    ELSE process_csv_file(d, name)

\* ---------------------------------------------------------------- Database Loader

\* What a load_to_duckdb call can do: succeed; raise in duckdb.connect; raise
\* in CREATE SCHEMA; raise in CREATE OR REPLACE TABLE (the schema is there).
LoadOutcomes == {"ok", "connect_fail", "schema_fail", "table_fail"}

\* CREATE SCHEMA IF NOT EXISTS
CreateSchema(schemas, schema_name) == schemas \cup {schema_name}

\* CreateOrReplaceTable, were it an INSERT into a table that exists
CreateOrReplaceTableMut(tables, schema_name, table_name, df) ==
    [p \in DOMAIN tables \cup {<<schema_name, table_name>>} |->
        IF p # <<schema_name, table_name>> THEN tables[p]
        ELSE IF p \in DOMAIN tables
             THEN [columns |-> df.columns, rows |-> tables[p].rows \o df.rows]
        ELSE df]

\* CREATE OR REPLACE TABLE schema.table AS SELECT * FROM df
CreateOrReplaceTable(tables, schema_name, table_name, df) ==
    [p \in DOMAIN tables \cup {<<schema_name, table_name>>} |->
        IF p = <<schema_name, table_name>> THEN df ELSE tables[p]]

\* the schemas after a call
SchemasAfter(schemas, schema_name, o) ==
    IF o \in {"ok", "table_fail"} THEN CreateSchema(schemas, schema_name) ELSE schemas

\* TablesAfter, were the replacement not atomic: a failing CREATE OR REPLACE
\* TABLE leaves the table with the rows written so far
TablesAfterMut(tables, unit, o) ==
    IF o = "ok"
    THEN [p \in DOMAIN tables \cup {<<unit.schema_name, unit.table_name>>} |->
            IF p = <<unit.schema_name, unit.table_name>> THEN unit.df ELSE tables[p]]
    ELSE IF o = "table_fail"
    THEN [p \in DOMAIN tables \cup {<<unit.schema_name, unit.table_name>>} |->
            IF p = <<unit.schema_name, unit.table_name>>
            THEN [columns |-> unit.df.columns, rows |-> <<Head(unit.df.rows)>>]
            ELSE tables[p]]
    ELSE tables

\* the tables after a call
TablesAfter(tables, unit, o) ==
    IF o = "ok"
    THEN CreateOrReplaceTable(tables, unit.schema_name, unit.table_name, unit.df)
    ELSE tables

\* LoadResult, were a failed statement not to make the call return False
LoadResultMut(o) == o # "connect_fail"
\* what load_to_duckdb returns
LoadResult(o) == o = "ok"

\* duckdb.connect(str(db_path)) creates the file when it succeeds
FileAfterConnect(file, o) == file \/ o # "connect_fail"

\* con.close() (line 214) is reached only when both statements succeeded:
\* an exception after duckdb.connect leaves the function by the except
\* clause with the connection still open
ConnectionLeft(o) == o \in {"schema_fail", "table_fail"}

\* ---------------------------------------------------------------- Orchestrator

\* the yields the generator can be suspended at
Yields == {"y_extracting", "y_error", "y_found", "y_file", "y_loading",
           "y_processing", "y_loaded", "y_filedone", "y_complete"}

\* the generator is over: it returned, raised, or was abandoned by the consumer
Ended == {"done", "raised", "closed"}

PerRunInit ==
    /\ pc = "start"
    /\ events = <<>>
    /\ files = <<>>
    /\ fileIdx = 0
    /\ data_files = <<>>
    /\ dataIdx = 0
    /\ unitIdx = 0
    /\ tables_loaded = 0
    /\ total_tables = 0
    /\ exitStatus = <<>>
    /\ pageGets = 0
    /\ extraction = "pending"
    /\ outcomes = <<>>
    /\ loadLog = <<>>
    /\ conLeft = FALSE
    /\ cli = None
    /\ extracted = {}

Init ==
    /\ run = 1
    /\ PerRunInit
    /\ dirExists = FALSE
    /\ disk = [n \in FileNames |-> None]
    /\ dbSchemas = {}
    /\ dbTables = <<>>
    /\ dbFile = FALSE
    /\ workbook = Workbook
    /\ lastCall = None
    /\ latest = <<>>
    /\ arg = <<>>
    /\ result = <<>>

Env == <<dirExists, disk>>
Db == <<dbSchemas, dbTables, dbFile, lastCall, latest, loadLog, conLeft>>
Downloading == <<files, fileIdx, data_files, outcomes>>
Loading == <<dataIdx, unitIdx, tables_loaded, total_tables, extracted>>
Apart == <<workbook, arg, result>>
Session == <<run, exitStatus, cli, Apart>>
Page == <<pageGets, extraction>>

\* Start, were the page fetched before the first yield
StartMut ==
    /\ pc = "start"
    /\ events' = <<EvExtracting>>
    /\ pageGets' = pageGets + 1
    /\ pc' = "y_extracting"
    /\ UNCHANGED <<Session, Env, Db, Downloading, Loading, extraction>>

\* The first next(): the code up to the first yield (line 219).
Start ==
    /\ pc = "start"
    /\ events' = <<EvExtracting>>
    /\ pc' = "y_extracting"
    /\ UNCHANGED <<Session, Env, Db, Downloading, Loading, Page>>

\* get_download_links raises ExtractionError: the error event (lines 221-224).
ExtractFail ==
    /\ pc = "y_extracting"
    /\ pageGets' = pageGets + 1
    /\ extraction' = "raised"
    /\ events' = Append(events, EvError(<<"Failed to extract download links">>))
    /\ pc' = "y_error"
    /\ UNCHANGED <<Session, Env, Db, Downloading, Loading>>

\* ErrorReturn, were the return missing: the code goes on to the downloads
ErrorReturnMut ==
    /\ pc = "y_error"
    /\ events' = Append(events, EvFound(Len(files)))
    /\ pc' = "y_found"
    /\ UNCHANGED <<Session, Env, Db, Downloading, Loading, Page>>

\* the return after the error event (line 225)
ErrorReturn ==
    /\ pc = "y_error"
    /\ pc' = "done"
    /\ UNCHANGED <<Session, Env, Db, Downloading, Loading, Page, events>>

\* get_download_links returns: the summary event (lines 222, 227-231).
ExtractOk ==
    /\ pc = "y_extracting"
    /\ \E page \in Pages :
        /\ files' = get_download_links(page)
        /\ events' = Append(events, EvFound(Len(files')))
    /\ pageGets' = pageGets + 1
    /\ extraction' = "returned"
    /\ pc' = "y_found"
    /\ UNCHANGED <<Session, Env, Db, fileIdx, data_files, outcomes, Loading>>

\* Lines 240-241, run when the generator is resumed after a per-file event.
DataFilesResumed ==
    IF pc = "y_file" /\ Suffix(files[fileIdx].filename) \in {".xlsx", ".csv"}
    THEN Append(data_files, files[fileIdx].filename)
    ELSE data_files

\* output_dir.mkdir(exist_ok=True, parents=True) raises (line 130): the
\* exception leaves download_file_gen and imd_data_loader.
MkdirFail ==
    /\ pc = "y_found"
    /\ ~dirExists
    /\ pc' = "raised"
    /\ UNCHANGED <<Session, Env, Db, Downloading, Loading, Page, events>>

\* the download loop has a next descriptor
FetchNext ==
    /\ pc \in {"y_found", "y_file"}
    /\ fileIdx < Len(files)
    /\ data_files' = DataFilesResumed
    /\ fileIdx' = fileIdx + 1
    /\ dirExists' = TRUE
    /\ pc' = "y_file"
    /\ UNCHANGED <<Session, Db, files, Loading, Page>>

\* The file is there: exists (lines 137-139).
FetchExists ==
    /\ FetchNext
    /\ LET desc == files[fileIdx + 1]
       IN  /\ Exists(disk, desc.filename)
           /\ disk' = disk
           /\ outcomes' = Append(outcomes,
                  [o |-> "exists", before |-> disk[desc.filename],
                   after |-> disk'[desc.filename]])
           /\ events' = Append(events, EvFile("exists", desc.filename))

\* The file is not there: the download, and downloaded or failed (lines 141-152).
FetchDownload ==
    /\ FetchNext
    /\ LET desc == files[fileIdx + 1]
       IN  /\ ~Exists(disk, desc.filename)
           /\ \E o \in DownloadOutcomes :
                /\ disk' = WrittenFile(disk, desc, o)
                /\ outcomes' = Append(outcomes,
                       [o |-> o, before |-> disk[desc.filename],
                        after |-> disk'[desc.filename]])
                /\ events' = Append(events, EvFile(StatusOf(o), desc.filename))

\* download_file_gen is exhausted: the loading summary event (lines 243-247).
DownloadsDone ==
    /\ pc \in {"y_found", "y_file"}
    /\ fileIdx = Len(files)
    /\ data_files' = DataFilesResumed
    /\ dirExists' = TRUE
    /\ events' = Append(events, EvLoading(Len(data_files')))
    /\ pc' = "y_loading"
    /\ UNCHANGED <<Session, disk, Db, files, fileIdx, outcomes, Loading, Page>>

\* The loading loop has a next file: the processing event (lines 250-251).
NextFile ==
    /\ pc \in {"y_loading", "y_filedone"}
    /\ dataIdx < Len(data_files)
    /\ dataIdx' = dataIdx + 1
    /\ unitIdx' = 0
    /\ events' = Append(events, EvProcessing(data_files[dataIdx + 1]))
    /\ pc' = "y_processing"
    /\ UNCHANGED <<Session, Env, Db, Downloading, tables_loaded, total_tables,
                   extracted, Page>>

\* the processor of the current file is running or is resumed (lines 253-263)
InProcessor ==
    /\ pc \in {"y_processing", "y_loaded", "in_processor"}
    /\ extracted' = extracted \cup {dataIdx}
    /\ UNCHANGED <<Session, Env, Downloading, dataIdx, Page>>

\* TablesLoadedNow, were tables_loaded not reset for each file
TablesLoadedNowMut == tables_loaded
\* tables_loaded when the processor is entered (line 253) or resumed
TablesLoadedNow == IF pc = "y_processing" THEN 0 ELSE tables_loaded

\* The processor yields a unit and load_to_duckdb is called on it (lines 263-274).
LoadUnit ==
    /\ InProcessor
    /\ LET units == Processor(disk, data_files[dataIdx])
       IN  /\ unitIdx < Len(units)
           /\ unitIdx' = unitIdx + 1
           /\ \E o \in LoadOutcomes :
                LET unit == units[unitIdx + 1]
                    call == [schema_name |-> unit.schema_name,
                             table_name |-> unit.table_name,
                             df |-> unit.df, ok |-> LoadResult(o)]
                IN  /\ dbSchemas' = SchemasAfter(dbSchemas, unit.schema_name, o)
                    /\ dbFile' = FileAfterConnect(dbFile, o)
                    /\ conLeft' = ConnectionLeft(o)
                    /\ dbTables' = TablesAfter(dbTables, unit, o)
                    /\ loadLog' = Append(loadLog, call)
                    /\ lastCall' = call
                    /\ latest' = IF LoadResult(o)
                                 THEN [p \in DOMAIN latest \cup
                                            {<<unit.schema_name, unit.table_name>>} |->
                                        IF p = <<unit.schema_name, unit.table_name>>
                                        THEN unit.df ELSE latest[p]]
                                 ELSE latest
                    /\ IF LoadResult(o)
                       THEN /\ tables_loaded' = TablesLoadedNow + 1
                            /\ total_tables' = total_tables + 1
                            /\ events' = Append(events,
                                   EvLoaded(data_files[dataIdx], unit.schema_name,
                                            unit.table_name, Len(unit.df.rows)))
                            /\ pc' = "y_loaded"
                       ELSE /\ tables_loaded' = TablesLoadedNow
                            /\ total_tables' = total_tables
                            /\ events' = events
                            /\ pc' = "in_processor"

\* The processor is exhausted: the per-file complete event (lines 276-281).
FileDone ==
    /\ InProcessor
    /\ unitIdx = Len(Processor(disk, data_files[dataIdx]))
    /\ unitIdx' = unitIdx
    /\ tables_loaded' = TablesLoadedNow
    /\ events' = Append(events, EvFileDone(data_files[dataIdx], TablesLoadedNow))
    /\ pc' = "y_filedone"
    /\ UNCHANGED <<Db, total_tables>>

\* Complete, were the final yield inside the loading loop
CompleteMut ==
    /\ pc \in {"y_loading", "y_filedone"}
    /\ events' = Append(events, EvComplete(total_tables))
    /\ pc' = IF dataIdx = Len(data_files) THEN "y_complete" ELSE "y_filedone"
    /\ UNCHANGED <<Session, Env, Db, Downloading, Loading, Page>>

\* The loading loop is over: the final event (lines 283-287).
Complete ==
    /\ pc \in {"y_loading", "y_filedone"}
    /\ dataIdx = Len(data_files)
    /\ events' = Append(events, EvComplete(total_tables))
    /\ pc' = "y_complete"
    /\ UNCHANGED <<Session, Env, Db, Downloading, Loading, Page>>

\* the generator returns after the final event
Return ==
    /\ pc = "y_complete"
    /\ pc' = "done"
    /\ UNCHANGED <<Session, Env, Db, Downloading, Loading, Page, events>>

\* A consumer of the generator stops iterating at an event it received.
Abandon ==
    /\ pc \in Yields
    /\ pc' = "closed"
    /\ UNCHANGED <<Session, Env, Db, Downloading, Loading, Page, events>>

\* ---------------------------------------------------------------- the load command

\* cmd_load's return (cli.py lines 27-32).  load_with_progress iterates the
\* generator to its end and handles an event of any stage without raising
\* (an error event matches none of its branches), so it returns when the
\* generator returns and raises when the generator raises: 0 in the first
\* case, 1 in the second.
cmd_load ==
    /\ exitStatus = <<>>
    /\ pc \in {"done", "raised"}
    /\ exitStatus' = IF pc = "raised" THEN <<1>> ELSE <<0>>
    /\ UNCHANGED <<run, pc, events, Env, Db, Downloading, Loading, Page, cli, Apart>>

\* db_path.exists() of cmd_list_tables and cmd_query
DbPathExistsMut(file) == TRUE
DbPathExists(file) == file

\* how list_tables and query can go: both open a connection, execute one
\* statement that reads, and close
CommandOutcomes == {"ok", "connect_fail", "execute_fail"}

\* list_tables(db_path) or query(sql, db_path) inside the try of its command
DatabaseOperation(cmd, o) ==
    /\ cli' = [cmd |-> cmd, existed |-> dbFile,
               connects |-> IF o = "connect_fail" THEN 0 ELSE 1,
               executed |-> IF o = "connect_fail" THEN 0 ELSE 1,
               status |-> IF o = "ok" THEN 0 ELSE 1]
    /\ dbFile' = FileAfterConnect(dbFile, o)

\* a command on the database, run from the shell once the load command
\* returned
DatabaseCommand(cmd) ==
    /\ exitStatus # <<>>
    /\ cli = None
    /\ IF ~DbPathExists(dbFile)
       THEN /\ cli' = [cmd |-> cmd, existed |-> dbFile, connects |-> 0,
                       executed |-> 0, status |-> 1]
            /\ dbFile' = dbFile
       ELSE \E o \in CommandOutcomes : DatabaseOperation(cmd, o)
    /\ UNCHANGED <<run, exitStatus, Apart, pc, events, Env, dbSchemas, dbTables,
                   lastCall, latest, loadLog, conLeft, Downloading, Loading, Page>>

cmd_list_tables == DatabaseCommand("list-tables")

cmd_query == DatabaseCommand("query")

\* the pipeline is run again on the same data directory and database
NewRun ==
    /\ run < MaxRuns
    /\ pc \in Ended
    /\ run' = run + 1
    /\ pc' = "start"
    /\ events' = <<>>
    /\ files' = <<>>
    /\ fileIdx' = 0
    /\ data_files' = <<>>
    /\ dataIdx' = 0
    /\ unitIdx' = 0
    /\ tables_loaded' = 0
    /\ total_tables' = 0
    /\ exitStatus' = <<>>
    /\ pageGets' = 0
    /\ extraction' = "pending"
    /\ outcomes' = <<>>
    /\ loadLog' = <<>>
    /\ conLeft' = FALSE
    /\ cli' = None
    /\ extracted' = {}
    /\ UNCHANGED <<Env, dbSchemas, dbTables, dbFile, lastCall, latest, Apart>>

Next ==
    \/ Start
    \/ ExtractFail
    \/ ErrorReturn
    \/ ExtractOk
    \/ MkdirFail
    \/ FetchExists
    \/ FetchDownload
    \/ DownloadsDone
    \/ NextFile
    \/ LoadUnit
    \/ FileDone
    \/ Complete
    \/ Return
    \/ Abandon
    \/ cmd_load
    \/ cmd_list_tables
    \/ cmd_query
    \/ NewRun

Spec == Init /\ [][Next]_vars

\* ------------------------------------------- functions applied on their own

\* the pipeline before its first run
Idle ==
    /\ run = 1
    /\ PerRunInit
    /\ dirExists = FALSE
    /\ dbSchemas = {}
    /\ dbTables = <<>>
    /\ dbFile = FALSE
    /\ lastCall = None
    /\ latest = <<>>

Pipeline == <<run, exitStatus, cli, pc, events, Env, Db, Downloading, Loading, Page>>

\* the characters of the names sanitise_name is given: a letter in both
\* cases, a digit, and every character the function treats specially
NameChars == {"A", "a", "1", " ", "-", "_", "&", "(", ")"}
Names == SeqsUpTo(NameChars, MaxNameLen)

InitSanitise ==
    /\ Idle
    /\ disk = [n \in FileNames |-> None]
    /\ workbook = Workbook
    /\ arg \in Names
    /\ result = <<>>

\* sanitise_name(name), then sanitise_name of what it returned
Sanitise ==
    /\ Len(result) < 2
    /\ result' = Append(result, sanitise_name(IF result = <<>> THEN arg
                                              ELSE result[Len(result)]))
    /\ UNCHANGED <<Pipeline, workbook, arg>>

NextSanitise == Sanitise

SpecSanitise == InitSanitise /\ [][NextSanitise]_vars

\* sheet names: the skipped one, one differing from it in case only, and one
\* that sanitise_name changes
SheetNames == {SheetNotes, <<"n", "o", "t", "e", "s">>, <<"D", " ", "1">>}

\* what read_excel can return for a sheet: rows and columns, no column, no row
Grids == {Grid(1, <<1>>), Grid(0, <<>>), Grid(1, <<>>)}

\* a sheet parses to a grid, or read_excel raises on it
Sheets ==
    {[name |-> n, kind |-> "data", df |-> g] : n \in SheetNames, g \in Grids}
    \cup {[name |-> n, kind |-> "bad", df |-> Grid(0, <<>>)] : n \in SheetNames}

\* the file at excel_path: none, the whole workbook, or a truncated one
XlsxUrl == [base |-> "BASE_URL", dir |-> 1, name |-> NameXlsx]
XlsxFiles == {None, [url |-> XlsxUrl, complete |-> TRUE],
              [url |-> XlsxUrl, complete |-> FALSE]}

InitExcel ==
    /\ Idle
    /\ workbook \in SeqsUpTo(Sheets, MaxSheets)
    /\ \E f \in XlsxFiles :
         disk = [n \in FileNames |-> IF n = NameXlsx THEN f ELSE None]
    /\ arg = NameXlsx
    /\ result = <<>>

\* list(process_excel_file(excel_path))
ExtractExcel ==
    /\ result = <<>>
    /\ result' = <<process_excel_file(disk, arg)>>
    /\ UNCHANGED <<Pipeline, workbook, arg>>

NextExcel == ExtractExcel

SpecExcel == InitExcel /\ [][NextExcel]_vars

\* ---------------------------------------------------------------- properties

NEvents == Len(events)
LastEvent == events[NEvents]

\* a per-file downloading event
IsFileEvent(e) == e.stage = "downloading" /\ "status" \in DOMAIN e
\* a loading event of a file: processing, loaded or per-file complete
IsLoadingFileEvent(e) == e.stage = "loading" /\ "file" \in DOMAIN e
\* the loading summary event
IsLoadingSummary(e) == e.stage = "loading" /\ "total_files" \in DOMAIN e
HasStatus(e, status) == "status" \in DOMAIN e /\ e.status = status

FileEvents == SelectSeq(events, IsFileEvent)
IsLoadedEvent(e) == e.stage = "loading" /\ HasStatus(e, "loaded")
IsProcessingEvent(e) == e.stage = "loading" /\ HasStatus(e, "processing")
IsOkCall(c) == c.ok

\* the descriptor's request or write failed
Failing(j) == outcomes[j].o \in {"req_fail", "write_fail"}
\* an HTTP request was issued for the descriptor
Requested(j) == outcomes[j].o \in DownloadOutcomes

\* C1: when get_download_links raises ExtractionError the events are exactly
\* extracting then error, the generator is at that yield or over, and no
\* descriptor was gone through and load_to_duckdb was never called.
C1_ExtractionErrorEndsRun ==
    extraction = "raised" =>
        /\ NEvents = 2
        /\ events[1] = EvExtracting
        /\ events[2].stage = "error"
        /\ pc \in {"y_error", "done", "closed"}
        /\ fileIdx = 0 /\ outcomes = <<>>
        /\ loadLog = <<>> /\ extracted = {}
        /\ \A n \in FileNames : run = 1 => disk[n] = None

C1_Witness == extraction = "raised" /\ pc = "done" /\ exitStatus # <<>>

\* the steps from one event's stage to the next's that the state machine allows
StageSteps == {
    <<"extracting", "downloading">>, <<"extracting", "error">>,
    <<"downloading", "downloading">>, <<"downloading", "loading">>,
    <<"loading", "loading">>, <<"loading", "complete">> }

\* C2: the stages of the events follow extracting -> downloading -> loading
\* -> complete or extracting -> error: the first event is the one extracting
\* event, each next event stays in its stage or moves to the next one, nothing
\* follows complete or error, and a generator that returned ended on one of
\* the two.
C2_StageOrder ==
    /\ pc # "start" => NEvents >= 1
    /\ NEvents >= 1 => events[1].stage = "extracting"
    /\ \A i \in 1..(NEvents - 1) :
          <<events[i].stage, events[i + 1].stage>> \in StageSteps
    /\ pc = "done" => LastEvent.stage \in {"complete", "error"}

C2_Witness ==
    /\ pc = "done"
    /\ LastEvent.stage = "complete"
    /\ \E i \in 1..NEvents : IsLoadedEvent(events[i])

\* C3: every downloading event of a file precedes every loading event of the
\* same file; a complete event is the last event and there is at most one;
\* a run whose link extraction succeeded and whose generator returned ends
\* with it.
C3_DownloadBeforeLoadCompleteLast ==
    /\ \A i, j \in 1..NEvents :
          (/\ IsFileEvent(events[i])
           /\ IsLoadingFileEvent(events[j])
           /\ events[i].file = events[j].file) => i < j
    /\ \A i \in 1..NEvents : events[i].stage = "complete" => i = NEvents
    /\ (pc = "done" /\ extraction = "returned") => LastEvent.stage = "complete"

C3_Witness ==
    /\ pc = "done"
    /\ extraction = "returned"
    /\ Len(FileEvents) = 2
    /\ \E i, j \in 1..NEvents :
          /\ IsFileEvent(events[i])
          /\ IsLoadedEvent(events[j])
          /\ events[i].file = events[j].file

\* the descriptors gone through whose file was there or was downloaded
Fetched == {j \in 1..Len(outcomes) : ~Failing(j)}

\* C4: a file whose download yields failed has no loading event, no Table
\* Extractor runs on its path, and the loading summary does not count it.
C4_FailedFileExcluded ==
    /\ \A i \in 1..NEvents :
          IsLoadingFileEvent(events[i]) =>
              \E j \in Fetched : files[j].filename = events[i].file
    /\ \A k \in extracted :
          \E j \in Fetched : files[j].filename = data_files[k]
    /\ \A i \in 1..NEvents :
          IsLoadingSummary(events[i]) =>
              events[i].total_files =
                  Cardinality({j \in Fetched :
                      Suffix(files[j].filename) \in {".xlsx", ".csv"}})

\* C5: download_file_gen yields one status per descriptor gone through, in
\* descriptor order, failed for exactly the descriptors whose request or
\* write failed; the loading stage is entered only after every descriptor was
\* gone through, and no failure of a descriptor raises out of the generator.
C5_PerFileIsolation ==
    /\ Len(FileEvents) = fileIdx
    /\ Len(outcomes) = fileIdx
    /\ \A j \in 1..Len(FileEvents) :
          /\ FileEvents[j].file = files[j].filename
          /\ FileEvents[j].status = "failed" <=> Failing(j)
          /\ FileEvents[j].status \in {"exists", "downloaded", "failed"}
    /\ (\E i \in 1..NEvents : events[i].stage \in {"loading", "complete"}) =>
          fileIdx = Len(files)
    /\ pc = "raised" => fileIdx = 0

C5_Witness ==
    /\ pc = "done"
    /\ Len(files) = 2
    /\ outcomes[1].o = "write_fail"
    /\ outcomes[2].o = "ok"

\* C6: a descriptor whose file is in the directory when it is reached yields
\* exists, no request is issued for it and the file is left as it was; so a
\* run that finds every file there issues no request at all.
C6_IdempotentFetch ==
    /\ \A j \in 1..Len(outcomes) :
          outcomes[j].before # None =>
              /\ FileEvents[j].status = "exists"
              /\ ~Requested(j)
              /\ outcomes[j].after = outcomes[j].before
    /\ (\A j \in 1..Len(outcomes) : outcomes[j].before # None) =>
          \A j \in 1..Len(outcomes) : ~Requested(j)

C6_Witness ==
    /\ run = 2
    /\ pc = "done"
    /\ Len(files) = 2
    /\ files[1].filename # files[2].filename
    /\ \A j \in 1..2 : outcomes[j].before # None /\ FileEvents[j].status = "exists"
    /\ \E j \in 1..2 : ~outcomes[j].before.complete

\* C7: nothing happens before the consumer asks for the event that follows
\* it: the page is not fetched while the extracting event is the only event,
\* requests and writes were made only for descriptors whose event was
\* received, load_to_duckdb was not called while the last event is a
\* downloading event, a Table Extractor ran only on files whose processing
\* event was received, and every successful load has its loaded event.
C7_PullDriven ==
    /\ NEvents <= 1 => pageGets = 0 /\ extraction = "pending"
    /\ NEvents = 0 => ~dirExists \/ run > 1
    /\ Len(outcomes) = Len(FileEvents)
    /\ (NEvents >= 1 /\ LastEvent.stage \in {"extracting", "downloading"}) =>
          loadLog = <<>> /\ extracted = {}
    /\ \A k \in extracted : k <= Len(SelectSeq(events, IsProcessingEvent))
    /\ Len(SelectSeq(loadLog, IsOkCall)) = Len(SelectSeq(events, IsLoadedEvent))

C7_Witness ==
    /\ pc = "closed"
    /\ Len(files) = 2
    /\ IsFileEvent(LastEvent)
    /\ Len(FileEvents) = 1
    /\ outcomes[1].o = "ok"
    /\ disk[files[2].filename] = None

\* C8: each table of the database holds exactly the grid of the latest
\* successful load to it, whatever calls failed or were never made since.
C8_CompleteLatestLoad ==
    /\ DOMAIN dbTables = DOMAIN latest
    /\ \A p \in DOMAIN dbTables : dbTables[p] = latest[p]
    /\ \A p \in DOMAIN dbTables : p[1] \in dbSchemas

C8_Witness ==
    /\ run = 2
    /\ pc = "closed"
    /\ \E i \in 1..Len(loadLog) :
          LET p == <<loadLog[i].schema_name, loadLog[i].table_name>>
          IN  /\ ~loadLog[i].ok
              /\ p \in DOMAIN dbTables
              /\ dbTables[p] # loadLog[i].df

\* C9: a successful load_to_duckdb call with the arguments of the successful
\* call before it leaves the schemas and the tables as that call left them.
C9_LoadIdempotent ==
    [][(/\ Len(loadLog') = Len(loadLog) + 1
        /\ lastCall # None
        /\ lastCall' = lastCall
        /\ lastCall.ok)
       => (dbTables' = dbTables /\ dbSchemas' = dbSchemas)]_vars

C9_Witness ==
    \E i \in 1..(Len(loadLog) - 1) : loadLog[i].ok /\ loadLog[i + 1] = loadLog[i]

\* C10: cmd_load returns 0 exactly when the events reached the complete
\* stage with no error event, and nonzero otherwise.
C10_ExitStatusReflectsOutcome ==
    exitStatus # <<>> =>
        (exitStatus = <<0>> <=>
            /\ \E i \in 1..NEvents : events[i].stage = "complete"
            /\ \A i \in 1..NEvents : events[i].stage # "error")

\* C11: when the database file does not exist, the list-tables and the query
\* command return a nonzero status without attempting the operation: no
\* connection was opened, no SQL was executed, and the file still does not
\* exist afterwards.
C11_MissingDatabaseRefused ==
    (cli # None /\ ~cli.existed) =>
        /\ cli.status # 0
        /\ cli.connects = 0
        /\ cli.executed = 0
        /\ ~dbFile

C11_Witness ==
    /\ cli # None
    /\ ~cli.existed
    /\ cli.cmd = "query"
    /\ cli.status = 1
    /\ events # <<>>

\* C12: sanitise_name is idempotent: for every name over letters, digits,
\* space, '-', '_', '&', '(' and ')', sanitising the sanitised name returns
\* it unchanged.
C12_SanitiseIdempotent ==
    Len(result) = 2 => result[2] = result[1]

C12_Witness ==
    /\ Len(result) = 2
    /\ arg = <<"(", "_", ")", "&">>
    /\ result[1] = <<"a", "n", "d">>

\* the names the pipeline sanitises: file stems and sheet names
RawNames == {n.stem : n \in FileNames} \cup {workbook[i].name : i \in DOMAIN workbook}

Forbidden == {UpperCase[i] : i \in DOMAIN UpperCase} \cup {" ", "-", "&", "(", ")"}

WellFormed(name) ==
    /\ \A i \in DOMAIN name : name[i] \notin Forbidden
    /\ \A i \in 1..(Len(name) - 1) : ~(name[i] = "_" /\ name[i + 1] = "_")
    /\ name # <<>> => (name[1] # "_" /\ name[Len(name)] # "_")

Kept(sheet) ==
    /\ sheet.name # SheetNotes
    /\ sheet.kind = "data"
    /\ sheet.df.columns >= 1
    /\ Len(sheet.df.rows) >= 1

\* C14: process_excel_file yields one unit for exactly the sheets, in file
\* order, that are not named exactly "Notes", parse without error and have
\* at least one row and one column; the unit's table name is the sanitised
\* sheet name and every unit has the sanitised file stem as schema name; an
\* empty or unparsable sheet yields no unit and does not stop later sheets;
\* a workbook that does not open yields zero units and raises nothing.
C14_ExcelUnits ==
    result # <<>> =>
        LET opens == disk[arg] # None /\ disk[arg].complete
            kept == SelectSeq(workbook, Kept)
        IN  result[1] =
                IF opens
                THEN [i \in 1..Len(kept) |->
                        [schema_name |-> sanitise_name(arg.stem),
                         table_name |-> sanitise_name(kept[i].name),
                         df |-> kept[i].df]]
                ELSE <<>>

C14_Witness ==
    /\ result # <<>>
    /\ Len(workbook) = 3
    /\ workbook[1].kind = "bad"
    /\ workbook[2].name = SheetNotes
    /\ workbook[3].name = <<"n", "o", "t", "e", "s">>
    /\ Len(result[1]) = 1
    /\ result[1][1].table_name = <<"n", "o", "t", "e", "s">>

IsFileDoneEvent(e) == e.stage = "loading" /\ HasStatus(e, "complete")
IsFinalEvent(e) == e.stage = "complete"

\* the sum of tables_loaded over the per-file complete events of es
RECURSIVE SumTablesLoaded(_)
SumTablesLoaded(es) ==
    IF es = <<>> THEN 0
    ELSE (IF IsFileDoneEvent(Head(es)) THEN Head(es).tables_loaded ELSE 0)
         + SumTablesLoaded(Tail(es))

\* C15: total_tables of the final complete event equals the number of loaded
\* events, the sum of tables_loaded over the per-file complete events, and
\* the number of load_to_duckdb calls that returned True.
C15_TotalsAgree ==
    (events # <<>> /\ IsFinalEvent(LastEvent)) =>
        /\ LastEvent.total_tables = Len(SelectSeq(events, IsLoadedEvent))
        /\ LastEvent.total_tables = SumTablesLoaded(events)
        /\ LastEvent.total_tables = Len(SelectSeq(loadLog, IsOkCall))

C15_Witness ==
    /\ events # <<>>
    /\ IsFinalEvent(LastEvent)
    /\ LastEvent.total_tables = 3
    /\ Len(loadLog) = 4
    /\ Len(SelectSeq(events, IsFileDoneEvent)) = 2

\* the position of the latest processing event before position i
LastProcessing(i) ==
    CHOOSE p \in 1..(i - 1) :
        /\ IsProcessingEvent(events[p])
        /\ \A q \in (p + 1)..(i - 1) : ~IsProcessingEvent(events[q])

\* the loaded events strictly between positions p and i
LoadedBetween(p, i) == Cardinality({q \in (p + 1)..(i - 1) : IsLoadedEvent(events[q])})

\* the files of a sequence of events
FilesOf(es) == [k \in DOMAIN es |-> es[k].file]
IsDataFileEvent(e) == IsFileEvent(e) /\ Suffix(e.file) \in {".xlsx", ".csv"}

\* C16: each processing event is followed, before the next processing event
\* and before the final complete event, by zero or more loaded events for
\* the same file and then exactly one per-file complete event for that file
\* whose tables_loaded is the number of those loaded events; the number of
\* processing events equals total_files of the loading summary; files are
\* processed in the order of their downloading events.
C16_LoadBracketing ==
    /\ \A i \in 2..NEvents :
          LET e == events[i]
              prev == events[i - 1]
          IN  /\ IsLoadedEvent(e) =>
                    /\ IsProcessingEvent(prev) \/ IsLoadedEvent(prev)
                    /\ prev.file = e.file
              /\ IsFileDoneEvent(e) =>
                    /\ IsProcessingEvent(prev) \/ IsLoadedEvent(prev)
                    /\ prev.file = e.file
                    /\ e.tables_loaded = LoadedBetween(LastProcessing(i), i)
              /\ IsProcessingEvent(e) => IsLoadingSummary(prev) \/ IsFileDoneEvent(prev)
              /\ IsFinalEvent(e) =>
                    /\ IsLoadingSummary(prev) \/ IsFileDoneEvent(prev)
                    /\ \E s \in 1..i :
                          /\ IsLoadingSummary(events[s])
                          /\ events[s].total_files =
                                Len(SelectSeq(events, IsProcessingEvent))
                    /\ FilesOf(SelectSeq(events, IsProcessingEvent)) =
                          FilesOf(SelectSeq(events, IsDataFileEvent))
    /\ LET processed == FilesOf(SelectSeq(events, IsProcessingEvent))
           fetched == FilesOf(SelectSeq(events, IsDataFileEvent))
       IN  /\ Len(processed) <= Len(fetched)
           /\ processed = SubSeq(fetched, 1, Len(processed))

C16_Witness ==
    /\ events # <<>>
    /\ IsFinalEvent(LastEvent)
    /\ FilesOf(SelectSeq(events, IsProcessingEvent)) = <<NameCsv, NameXlsx>>
    /\ \E i \in 2..NEvents :
          /\ IsFileDoneEvent(events[i])
          /\ events[i].file = NameXlsx
          /\ events[i].tables_loaded = 2
    /\ \E i \in 2..NEvents :
          /\ IsFileDoneEvent(events[i])
          /\ events[i].file = NameCsv
          /\ events[i].tables_loaded = 1

\* the units of the data files from position k on
RECURSIVE UnitsFrom(_)
UnitsFrom(k) ==
    IF k > Len(data_files) THEN 0
    ELSE Len(Processor(disk, data_files[k])) + UnitsFrom(k + 1)

\* C17: a load_to_duckdb call that fails returns False without raising; no
\* loaded event and no error event is emitted for it and the counters are
\* not incremented; the remaining units and files are still processed and
\* the run ends in the final complete event.
C17_FailedLoadSkipped ==
    /\ conLeft => ~loadLog[Len(loadLog)].ok
    /\ pc = "in_processor" =>
          /\ loadLog # <<>>
          /\ ~loadLog[Len(loadLog)].ok
          /\ IsProcessingEvent(LastEvent) \/ IsLoadedEvent(LastEvent)
    /\ Len(SelectSeq(events, IsLoadedEvent)) = Len(SelectSeq(loadLog, IsOkCall))
    /\ total_tables = Len(SelectSeq(loadLog, IsOkCall))
    /\ loadLog # <<>> =>
          /\ \A i \in 1..NEvents : events[i].stage # "error"
          /\ pc # "raised"
          /\ pc = "done" => IsFinalEvent(LastEvent)
    /\ (events # <<>> /\ IsFinalEvent(LastEvent)) =>
          /\ Len(loadLog) = UnitsFrom(1)
          /\ Len(SelectSeq(events, IsFileDoneEvent)) = Len(data_files)

C17_Witness ==
    /\ pc = "done"
    /\ IsFinalEvent(LastEvent)
    /\ Len(loadLog) = 3
    /\ ~loadLog[1].ok
    /\ loadLog[2].ok
    /\ loadLog[3].ok
    /\ LastEvent.total_tables = 2
    /\ events[NEvents - 1].file = NameCsv

\* C18: load_to_duckdb is open-use-close on every call: whenever a call has
\* returned, True or False, the connection it opened has been closed, so no
\* connection is held open between two calls.
C18_ConnectionClosed == ~conLeft

\* the file at the path is the whole response body
Whole(file) == file # None /\ file.complete

\* C19: every file for which the fetcher yields exists or downloaded holds
\* the complete response body of its URL, in this and in every later run,
\* and no table is loaded from a file that a failed download left behind.
C19_ReadyFilesWhole ==
    /\ \A j \in 1..Len(outcomes) :
          FileEvents[j].status \in {"exists", "downloaded"} => Whole(outcomes[j].after)
    /\ \A i \in 1..NEvents :
          IsLoadedEvent(events[i]) => Whole(disk[events[i].file])

\* the schema.table of a call
Target(c) == <<c.schema_name, c.table_name>>
OkCalls == SelectSeq(loadLog, IsOkCall)

\* C20: within one run no two successfully loaded units target the same
\* schema.table, and the final total_tables is the number of distinct
\* schema.table pairs the run wrote.
C20_DistinctTargets ==
    /\ \A i, j \in DOMAIN OkCalls : i # j => Target(OkCalls[i]) # Target(OkCalls[j])
    /\ (events # <<>> /\ IsFinalEvent(LastEvent)) =>
          LastEvent.total_tables = Cardinality({Target(OkCalls[i]) : i \in DOMAIN OkCalls})

====
